---- MODULE Spec2Model ----
(***************************************************************************)
(* A model of aider-cli.py: the pipeline of main() -- list the files git   *)
(* knows, filter them against the skip-lists, sort them, let the user      *)
(* select in fzf, build the aider command and run it on confirmation --    *)
(* and of the pure functions filter_files and sort_files on their own.     *)
(*                                                                         *)
(* A Python str is a sequence of one-character strings, so that split,     *)
(* startswith, endswith, lower, fnmatch and the code-point order of str    *)
(* comparison are computed rather than assumed.                            *)
(***************************************************************************)
EXTENDS Integers, Sequences, FiniteSets, TLC

VARIABLES
    pc,              \* where main() is; "exit" once the process has ended
    choice,          \* the menu answer accepted at line 243 ("" before)
    cwd,             \* the working directory, as segments below the repository root
    tracked,         \* what `git ls-files --cached --others` prints from cwd
    worktree,        \* the files that exist on disk below cwd
    skip_patterns,   \* filter_files' parameter skip_patterns
    skip_dirs,       \* filter_files' parameter skip_dirs
    all_files,       \* main's all_files
    filtered_files,  \* main's filtered_files
    sorted_files,    \* main's sorted_files
    git,             \* how the listing of line 84 ended: "none", "ok", "failed", "raise"
    fzf,             \* how the fzf process ended: "none", "zero", "nonzero", "raise"
    selected,        \* the lines fzf handed back (line 183), as a set
    git_root,        \* git_root (lines 136-138) when the selection was read
    selected_files,  \* main's selected_files
    final_files,     \* main's final_files
    aider_command,   \* main's aider_command
    displayed,       \* the command line printed at line 275 ("" before)
    execute,         \* the lowered answer to the confirmation prompt
    stdout,          \* what was printed to stdout, one tag per print
    stderr,          \* what was printed to stderr, one tag per print
    invoked,         \* the external programs run so far, in order
    aider_argv,      \* the argv subprocess.run was given at line 279
    exit_status      \* the process's exit status; -1 while it runs

vars == << pc, choice, cwd, tracked, worktree, skip_patterns, skip_dirs,
           all_files, filtered_files, sorted_files, git, fzf, selected, git_root,
           selected_files,
           final_files, aider_command, displayed, execute, stdout, stderr, invoked,
           aider_argv, exit_status >>

----------------------------------------------------------------------------
(* Python str: code points, comparison, the str methods the code calls.    *)

\* The printable ASCII characters in code-point order, 32 (space) first.  The
\* double quote (34) and the backtick (96) cannot be written as TLA+ strings and
\* stand here under their names; no str of the model holds either.
Ascii ==
    << " ", "!", "dquote", "#", "$", "%", "&", "'", "(", ")", "*", "+", ",", "-", ".", "/",
       "0", "1", "2", "3", "4", "5", "6", "7", "8", "9", ":", ";", "<", "=", ">", "?",
       "@", "A", "B", "C", "D", "E", "F", "G", "H", "I", "J", "K", "L", "M", "N", "O",
       "P", "Q", "R", "S", "T", "U", "V", "W", "X", "Y", "Z", "[", "\\", "]", "^", "_",
       "backtick", "a", "b", "c", "d", "e", "f", "g", "h", "i", "j", "k", "l", "m", "n", "o",
       "p", "q", "r", "s", "t", "u", "v", "w", "x", "y", "z", "{", "|", "}", "~" >>

Chars == {Ascii[i] : i \in 1..Len(Ascii)}

\* ord(c), as str comparison uses it.
ord[c \in Chars] == 31 + (CHOOSE i \in 1..Len(Ascii) : Ascii[i] = c)

\* str.lower() on one character: A-Z (65..90) map 32 code points up.
lower_char(c) == IF ord[c] \in 65..90 THEN Ascii[ord[c] + 32 - 31] ELSE c

\* str.lower()
lower(s) == [i \in 1..Len(s) |-> lower_char(s[i])]

\* a < b for two str: lexicographic by code point, a proper prefix is smaller.
RECURSIVE str_lt(_, _)
str_lt(a, b) ==
    IF b = <<>> THEN FALSE
    ELSE IF a = <<>> THEN TRUE
    ELSE IF a[1] = b[1] THEN str_lt(Tail(a), Tail(b))
    ELSE ord[a[1]] < ord[b[1]]

\* a < b for two bool: False < True.
bool_lt(a, b) == ~a /\ b

\* s.startswith(p)
startswith(s, p) == Len(p) <= Len(s) /\ SubSeq(s, 1, Len(p)) = p

\* s.endswith(p)
endswith(s, p) == Len(p) <= Len(s) /\ SubSeq(s, Len(s) - Len(p) + 1, Len(s)) = p

\* s.split(sep) for a one-character sep: "b/".split("/") is ["b", ""].
RECURSIVE split(_, _)
split(s, sep) ==
    IF \A i \in 1..Len(s) : s[i] # sep THEN << s >>
    ELSE LET k == CHOOSE i \in 1..Len(s) :
                      s[i] = sep /\ \A j \in 1..(i - 1) : s[j] # sep
         IN  << SubSeq(s, 1, k - 1) >> \o split(SubSeq(s, k + 1, Len(s)), sep)

\* "".join(p + "/" for p in parts)
RECURSIVE join_slash(_)
join_slash(parts) ==
    IF parts = <<>> THEN <<>>
    ELSE parts[1] \o << "/" >> \o join_slash(Tail(parts))

\* os.path.basename(p): what follows the last "/" ("" for "b/").
basename(p) == LET parts == split(p, "/") IN parts[Len(parts)]

\* fnmatch.fnmatch(name, pat) on POSIX, where normcase is the identity:
\* "*" matches any run of characters, "?" any one character, any other
\* character itself.  No pattern drawn below holds a "[", the one further
\* construct of fnmatch.
RECURSIVE fnmatch(_, _)
fnmatch(name, pat) ==
    IF pat = <<>> THEN name = <<>>
    ELSE IF pat[1] = "*"
         THEN fnmatch(name, Tail(pat)) \/ (name # <<>> /\ fnmatch(Tail(name), pat))
    ELSE IF pat[1] = "?"
         THEN name # <<>> /\ fnmatch(Tail(name), Tail(pat))
    ELSE name # <<>> /\ name[1] = pat[1] /\ fnmatch(Tail(name), Tail(pat))

\* sorted(xs, key=...), where less[j, i] tells whether the key of xs[j] is
\* smaller than the key of xs[i].  Python's sort is stable: an element moves in
\* front of another only if its key is smaller, so its place is the number of
\* elements with a smaller key plus the number of earlier elements with an
\* equal key.
sorted_unstable(xs, less) ==
    LET n == Len(xs)
        before(j, i) == less[j, i] \/ (~less[i, j] /\ j > i)
        rank == [i \in 1..n |-> 1 + Cardinality({j \in 1..n : before(j, i)})]
    IN  [r \in 1..n |-> xs[CHOOSE i \in 1..n : rank[i] = r]]

sorted(xs, less) ==
    LET n == Len(xs)
        before(j, i) == less[j, i] \/ (~less[i, j] /\ j < i)
        rank == [i \in 1..n |-> 1 + Cardinality({j \in 1..n : before(j, i)})]
    IN  [r \in 1..n |-> xs[CHOOSE i \in 1..n : rank[i] = r]]

\* sorted(S) for a set S of str: its elements in code-point order.
sorted_set(S) ==
    [r \in 1..Cardinality(S) |->
        CHOOSE x \in S : Cardinality({y \in S : str_lt(y, x)}) = r - 1]

----------------------------------------------------------------------------
(* The module-level lists of aider-cli.py.                                 *)

CACHE_FILES ==
    << <<"*", ".", "p", "y", "c">>,
       <<"*", ".", "c", "l", "a", "s", "s">>,
       <<"*", ".", "o">>,
       <<"*", ".", "o", "b", "j">>,
       <<"*", ".", "d", "l", "l">>,
       <<"*", ".", "e", "x", "e">>,
       <<"*", ".", "s", "o">>,
       <<"*", ".", "c", "a", "c", "h", "e">>,
       <<"*", ".", "s", "w", "p">>,
       <<"*", "~">> >>

CACHE_DIRS ==
    << <<"_", "_", "p", "y", "c", "a", "c", "h", "e", "_", "_">>,
       <<"n", "o", "d", "e", "_", "m", "o", "d", "u", "l", "e", "s">>,
       <<"t", "a", "r", "g", "e", "t">>,
       <<"b", "u", "i", "l", "d">>,
       <<"d", "i", "s", "t">>,
       <<".", "c", "a", "c", "h", "e">>,
       <<".", "p", "y", "t", "e", "s", "t", "_", "c", "a", "c", "h", "e">>,
       <<"*", ".", "e", "g", "g", "-", "i", "n", "f", "o">>,
       <<"v", "e", "n", "d", "o", "r">>,
       <<".", "g", "r", "a", "d", "l", "e">> >>

SKIP_FILES ==
    << <<"_", "_", "i", "n", "i", "t", "_", "_", ".", "p", "y">>,
       <<"a", "i", "d", "e", "r", "-", "c", "l", "i", ".", "p", "y">>,
       <<"a", "i", "d", "e", "r", "-", "c", "l", "i", ".", "s", "h">>,
       <<".", "a", "i", "d", "e", "r", ".", "c", "h", "a", "t", ".", "h", "i", "s", "t", "o", "r", "y", ".", "m", "d">>,
       <<".", "a", "i", "d", "e", "r", ".", "c", "o", "n", "f", ".", "y", "m", "l">>,
       <<".", "a", "i", "d", "e", "r", ".", "i", "n", "p", "u", "t", ".", ".", "a", "i", "d", "e", "r", ".", "i", "n", "p", "u", "t", ".", "h", "i", "s", "t", "o", "r", "y">>,
       <<".", "a", "i", "d", "e", "r", ".", "t", "a", "g", "s", ".", ".", "a", "i", "d", "e", "r", ".", "t", "a", "g", "s", ".", "c", "a", "c", "h", "e", ".", "v", "3", "/">>,
       <<".", "c", "o", "d", "e", "i", "u", "m", "i", "g", "n", "o", "r", "e">>,
       <<"R", "E", "A", "D", "M", "E", ".", "m", "d">>,
       <<"A", "R", "C", "H", "I", "T", "E", "C", "T", "U", "R", "E", ".", "m", "d">> >> \o CACHE_FILES

SKIP_DIRS ==
    << <<".", "g", "i", "t", "/">>,
       <<"c", "o", "n", "f", "i", "g", "/">>,
       <<"d", "o", "c", "s", "/">>,
       <<"i", "n", "p", "u", "t", "/">>,
       <<"o", "u", "t", "p", "u", "t", "/">>,
       <<"m", "a", "r", "k", "d", "o", "w", "n", "s", "/">> >> \o CACHE_DIRS

\* FILE_TYPES: menu key |-> the extension; <<>> is None (both are falsy at
\* line 81).
FILE_TYPES ==
    ( << "1" >> :> [ext |-> <<"p", "y">>,      description |-> "Python files"]     ) @@
    ( << "2" >> :> [ext |-> <<"c">>,           description |-> "C files"]          ) @@
    ( << "3" >> :> [ext |-> <<"c", "p", "p">>, description |-> "C++ files"]        ) @@
    ( << "4" >> :> [ext |-> <<"r", "s">>,      description |-> "Rust files"]       ) @@
    ( << "5" >> :> [ext |-> <<"j", "s">>,      description |-> "JavaScript files"] ) @@
    ( << "6" >> :> [ext |-> <<"t", "s">>,      description |-> "TypeScript files"] ) @@
    ( << "7" >> :> [ext |-> <<"s", "h">>,      description |-> "Shell scripts"]    ) @@
    ( << "8" >> :> [ext |-> <<>>,              description |-> "All files"]        )

----------------------------------------------------------------------------
(* get_git_files                                                           *)

\* `git ls-files --cached --others --exclude-standard [*.<file_type>]` run in
\* cwd: every listed file, or those the pathspec *.<file_type> matches (its
\* "*" matches "/" too).
git_ls_files(listed, file_type) ==
    IF file_type = <<>> THEN listed
    ELSE SelectSeq(listed, LAMBDA f : fnmatch(f, << "*", "." >> \o file_type))

\* top_dirs: parts[0] + "/" of every file with more than one part.
top_dirs(files) ==
    { split(files[i], "/")[1] \o << "/" >> :
        i \in { j \in 1..Len(files) : Len(split(files[j], "/")) > 1 } }

\* The key of line 92: (not x.endswith('/'), x.lower()).
git_key(x) == << ~endswith(x, << "/" >>), lower(x) >>

\* < of two such keys, as Python compares tuples.
git_key_lt(k, l) ==
    \/ bool_lt(k[1], l[1])
    \/ k[1] = l[1] /\ str_lt(k[2], l[2])

\* The lists list(a_set) can be: the set's elements in any order.
list_of(S) ==
    { xs \in [1..Cardinality(S) -> S] : \A x \in S : \E i \in DOMAIN xs : xs[i] = x }

\* all_entries, given the order dirs in which list(top_dirs) came out.
all_entries(dirs, files) ==
    LET xs == dirs \o files
        ks == [i \in 1..Len(xs) |-> git_key(xs[i])]
    IN  sorted(xs, [j, i \in 1..Len(xs) |-> git_key_lt(ks[j], ks[i])])

----------------------------------------------------------------------------
(* filter_files                                                            *)

should_keep_files_only(file, patterns, dirs) ==
    /\ ~startswith(basename(file), << "." >>)
    /\ \A i \in 1..Len(patterns) : ~fnmatch(basename(file), patterns[i])

should_keep(file, patterns, dirs) ==
    IF endswith(file, << "/" >>)
    THEN \A i \in 1..Len(dirs) : ~startswith(file, dirs[i])
    ELSE /\ ~startswith(basename(file), << "." >>)
         /\ \A i \in 1..Len(patterns) : ~fnmatch(basename(file), patterns[i])

filter_files(files, patterns, dirs) ==
    SelectSeq(files, LAMBDA f : should_keep(f, patterns, dirs))

----------------------------------------------------------------------------
(* sort_files                                                              *)

\* file_key without its last component, the lowered final segment.
file_key_no_name(file) ==
    LET parts  == split(file, "/")
        is_dir == endswith(file, << "/" >>)
    IN  << Len(parts),
           ~is_dir,
           join_slash(SubSeq(parts, 1, Len(parts) - 1)),
           <<>> >>

\* file_key: (len(parts), not is_dir, the parts before the last each followed
\* by "/", the last part lowered).
file_key(file) ==
    LET parts  == split(file, "/")
        is_dir == endswith(file, << "/" >>)
    IN  << Len(parts),
           ~is_dir,
           join_slash(SubSeq(parts, 1, Len(parts) - 1)),
           lower(parts[Len(parts)]) >>

\* < of two such keys, as Python compares tuples.
file_key_lt(k, l) ==
    \/ k[1] < l[1]
    \/ k[1] = l[1] /\ bool_lt(k[2], l[2])
    \/ k[1] = l[1] /\ k[2] = l[2] /\ str_lt(k[3], l[3])
    \/ k[1] = l[1] /\ k[2] = l[2] /\ k[3] = l[3] /\ str_lt(k[4], l[4])

\* sort_files with a sort that is not stable.
sort_files_unstable(files) ==
    LET ks == [i \in 1..Len(files) |-> file_key(files[i])]
    IN  sorted_unstable(files, [j, i \in 1..Len(files) |-> file_key_lt(ks[j], ks[i])])

\* sorted(files, key=file_key)
sort_files(files) ==
    LET ks == [i \in 1..Len(files) |-> file_key(files[i])]
    IN  sorted(files, [j, i \in 1..Len(files) |-> file_key_lt(ks[j], ks[i])])

----------------------------------------------------------------------------
(* os.path, for the paths interactive_file_selection handles.  An absolute *)
(* path is the sequence of its segments below the repository's root; the   *)
(* working directory is cwd.                                               *)

Range(xs) == { xs[i] : i \in 1..Len(xs) }

\* os.path.normpath on the segments of an absolute path: "" and "." go, ".."
\* takes the segment before it away.
RECURSIVE normpath(_, _)
normpath(comps, acc) ==
    IF comps = <<>> THEN acc
    ELSE IF comps[1] = <<>> \/ comps[1] = << "." >>
         THEN normpath(Tail(comps), acc)
    ELSE IF comps[1] = << ".", "." >>
         THEN normpath(Tail(comps),
                       IF acc = <<>> THEN acc ELSE SubSeq(acc, 1, Len(acc) - 1))
    ELSE normpath(Tail(comps), Append(acc, comps[1]))

\* os.path.abspath(p) for a relative p: normpath(join(getcwd(), p)).
abspath(p) == normpath(cwd \o split(p, "/"), <<>>)

\* os.path.dirname(p): p up to its last "/", trailing slashes stripped.
dirname(p) ==
    LET parts == split(p, "/")
    IN  IF Len(parts) = 1 THEN <<>>
        ELSE LET head == join_slash(SubSeq(parts, 1, Len(parts) - 1))
                 n    == CHOOSE k \in 0..Len(head) :
                             /\ \A j \in (k + 1)..Len(head) : head[j] = "/"
                             /\ (k = 0 \/ head[k] # "/")
             IN  IF n = 0 THEN head ELSE SubSeq(head, 1, n)

\* "/".join(segs)
RECURSIVE join_path(_)
join_path(segs) ==
    IF segs = <<>> THEN <<>>
    ELSE IF Len(segs) = 1 THEN segs[1]
    ELSE segs[1] \o << "/" >> \o join_path(Tail(segs))

\* The length of the longest common prefix of two segment lists.
commonprefix(a, b) ==
    CHOOSE i \in 0..Len(a) :
        /\ i <= Len(b)
        /\ \A j \in 1..i : a[j] = b[j]
        /\ (i = Len(a) \/ i = Len(b) \/ a[i + 1] # b[i + 1])

\* os.path.relpath(p, start), start an absolute path, p not "": one ".." per
\* segment of start outside the common prefix, then the rest of abspath(p);
\* "." when nothing is left.
relpath(p, start) ==
    LET path_list == abspath(p)
        i         == commonprefix(start, path_list)
        rel_list  == [k \in 1..(Len(start) - i) |-> << ".", "." >>]
                         \o SubSeq(path_list, i + 1, Len(path_list))
    IN  IF rel_list = <<>> THEN << "." >> ELSE join_path(rel_list)

\* os.path.isdir(item): cwd is a directory, and so is every path with a file
\* of the working tree below it.
isdir(item) ==
    LET d == abspath(item)
    IN  \/ d = cwd
        \/ \E f \in worktree :
               LET a == abspath(f)
               IN  Len(a) > Len(d) /\ SubSeq(a, 1, Len(d)) = d

\* The files os.walk(item) comes by: those of the working tree below item.
walk(item) ==
    LET d == abspath(item)
    IN  { f \in worktree :
            LET a == abspath(f)
            IN  Len(a) > Len(d) /\ SubSeq(a, 1, Len(d)) = d }

----------------------------------------------------------------------------
(* interactive_file_selection                                              *)

\* The lines the reload bound to ctrl-l and right (build_reload_command) puts
\* in the list for the directory entry d: d itself, and d + "/" + name for
\* each name directly inside it.
reload_lines(d) ==
    { d } \cup { d \o << "/" >> \o abspath(f)[Len(abspath(d)) + 1] : f \in walk(d) }

\* The lines fzf can hand back: those it was given and those a reload on a
\* directory entry showed.
fzf_lines(files) ==
    Range(files) \cup
    UNION { reload_lines(files[i]) :
              i \in { j \in 1..Len(files) : endswith(files[j], << "/" >>) } }

\* git_root: the repository's root when `git rev-parse --show-toplevel`
\* succeeds, else current_dir, the directory of the first file.
rev_parse(files, rev_parse_ok) ==
    IF rev_parse_ok THEN <<>>
    ELSE abspath(IF files # <<>> THEN dirname(files[1]) ELSE << "." >>)

\* What one selected item adds to final_files, directories left as selected.
item_files_asis(item, root) == { item }

\* What one selected item adds to final_files (lines 186-197).
item_files(item, root) ==
    IF isdir(item)
    THEN { relpath(f, root) : f \in { g \in walk(item) : endswith(g, << ".", "p", "y" >>) } }
    ELSE { relpath(item, root) }

\* sorted(set(final_files)) of line 198 for the selected lines.
selection_result(lines, root) ==
    sorted_set(UNION { item_files(item, root) : item \in lines })

----------------------------------------------------------------------------
(* main: expansion and the aider command                                   *)

\* expand_directory(directory): `git ls-files ... <directory>*`, or [] when
\* git fails.
expand_directory(directory, git_ok) ==
    IF git_ok
    THEN SelectSeq(tracked, LAMBDA f : fnmatch(f, directory \o << "*" >>))
    ELSE <<>>

\* final_files after the loop of lines 259-263; git_ok[i] tells whether the
\* git call for the i-th selected entry, if it is made, succeeds.
RECURSIVE expand_all(_, _, _)
expand_all(files, git_ok, i) ==
    IF i > Len(files) THEN <<>>
    ELSE ( IF endswith(files[i], << "/" >>)
           THEN expand_directory(files[i], git_ok[i])
           ELSE << files[i] >> ) \o expand_all(files, git_ok, i + 1)

\* The entries of the selection main hands to expand_directory.
expanded(files) ==
    { i \in 1..Len(files) : endswith(files[i], << "/" >>) }

\* aider_command of lines 270-272: "aider", then "--file", f for each f.
RECURSIVE build_command(_)
build_command(files) ==
    IF files = <<>> THEN << <<"a", "i", "d", "e", "r">> >>
    ELSE build_command(SubSeq(files, 1, Len(files) - 1))
             \o << <<"-", "-", "f", "i", "l", "e">>, files[Len(files)] >>

\* " ".join(args)
RECURSIVE join_space(_)
join_space(args) ==
    IF args = <<>> THEN <<>>
    ELSE IF Len(args) = 1 THEN args[1]
    ELSE args[1] \o << " " >> \o join_space(Tail(args))

\* s.strip(), the space being the whitespace of the model.
RECURSIVE strip(_)
strip(s) ==
    IF s # <<>> /\ s[1] = " " THEN strip(Tail(s))
    ELSE IF s # <<>> /\ s[Len(s)] = " " THEN strip(SubSeq(s, 1, Len(s) - 1))
    ELSE s

\* Line 278 taking any answer that starts with "y".
confirmed_lax(answer) == answer # <<>> /\ lower(answer)[1] = "y"

\* Lines 277-278: the answer, lowered, is "yes".
confirmed(answer) == lower(answer) = << "y", "e", "s" >>

----------------------------------------------------------------------------
(* Bounds and the sets the inputs are drawn from.                          *)

MaxTracked == 2   \* files in a drawn repository
MaxDeleted == 1   \* listed files missing from the working tree
MaxSelect  == 2   \* lines selected in fzf
MaxInvalid == 1   \* invalid answers to the menu
MaxFiles   == 3   \* length of sort_files' input, on its own
MaxFilter  == 2   \* length of filter_files' input, on its own
MaxSkip    == 1   \* length of each skip-list, filter_files on its own

seqs_upto(S, n) == UNION { [1..k -> S] : k \in 0..n }

distinct(xs) == \A i, j \in 1..Len(xs) : i # j => xs[i] # xs[j]

\* [a.py, b/__init__.py, b/x.py, node_modules/y.js]
ExampleRepo ==
    << <<"a", ".", "p", "y">>,
       <<"b", "/", "_", "_", "i", "n", "i", "t", "_", "_", ".", "p", "y">>,
       <<"b", "/", "x", ".", "p", "y">>,
       <<"n", "o", "d", "e", "_", "m", "o", "d", "u", "l", "e", "s", "/", "y", ".", "j", "s">> >>

\* a.py, b/x.py, b/y.js
TrackedFiles ==
    { <<"a", ".", "p", "y">>,
      <<"b", "/", "x", ".", "p", "y">>,
      <<"b", "/", "y", ".", "j", "s">> }

\* What git lists: the example, or up to MaxTracked files, each once.
Repos ==
    { ExampleRepo } \cup { xs \in seqs_upto(TrackedFiles, MaxTracked) : distinct(xs) }

\* b/gen.py: on disk, ignored by git.
IgnoredFiles == { <<"b", "/", "g", "e", "n", ".", "p", "y">> }

\* What can be on disk where git lists `listed`: the listed files but up to
\* MaxDeleted of them (in the index, deleted from the working tree), and any of
\* the ignored ones.
Worktrees(listed) ==
    { (Range(listed) \ gone) \cup extra :
        gone \in { S \in SUBSET Range(listed) : Cardinality(S) <= MaxDeleted },
        extra \in SUBSET IgnoredFiles }

\* The program runs in the repository's root or in its directory s.
Cwds == { <<>>, << <<"s">> >> }

\* Answers to the menu: "1", " 8", "9".
MenuInputs == { << "1" >>, << " ", "8" >>, << "9" >> }

\* Answers to the confirmation: "YES", "no", "y".
Answers == { <<"Y", "E", "S">>, <<"n", "o">>, <<"y">> }

\* a.py, A.py, z, b/, B/, b/x.py, b/a.py, b/c/
SortPaths ==
    { <<"a", ".", "p", "y">>, <<"A", ".", "p", "y">>, <<"z">>,
      <<"b", "/">>, <<"B", "/">>,
      <<"b", "/", "x", ".", "p", "y">>, <<"b", "/", "a", ".", "p", "y">>,
      <<"b", "/", "c", "/">> }

\* a.py, .env, b/x.pyc, b/, docs/, .git/
FilterPaths ==
    { <<"a", ".", "p", "y">>, <<".", "e", "n", "v">>,
      <<"b", "/", "x", ".", "p", "y", "c">>,
      <<"b", "/">>, <<"d", "o", "c", "s", "/">>, <<".", "g", "i", "t", "/">> }

\* *.pyc, a.py, ?.py, *
PatternPool ==
    { <<"*", ".", "p", "y", "c">>, <<"a", ".", "p", "y">>,
      <<"?", ".", "p", "y">>, <<"*">> }

\* docs/, b, .git/
DirPool == { <<"d", "o", "c", "s", "/">>, <<"b">>, <<".", "g", "i", "t", "/">> }

----------------------------------------------------------------------------
(* main                                                                    *)

\* The locals of main before its first statement, and nothing printed or
\* run but the menu.
Fresh ==
    /\ choice = <<>>
    /\ git = "none"
    /\ fzf = "none"
    /\ selected = {}
    /\ git_root = <<>>
    /\ selected_files = <<>>
    /\ final_files = <<>>
    /\ aider_command = <<>>
    /\ displayed = <<>>
    /\ execute = <<>>
    /\ stdout = << "Select file type to list:" >>
    /\ stderr = <<>>
    /\ invoked = <<>>
    /\ aider_argv = <<>>
    /\ exit_status = -1

Init ==
    /\ Fresh
    /\ pc = "menu"
    /\ all_files = <<>>
    /\ filtered_files = <<>>
    /\ sorted_files = <<>>
    /\ cwd \in Cwds
    /\ tracked \in Repos
    /\ worktree \in Worktrees(tracked)
    /\ skip_patterns = SKIP_FILES
    /\ skip_dirs = SKIP_DIRS

invalid_answers == Cardinality({ i \in 1..Len(stdout) : stdout[i] = "Invalid choice. Please try again." })

\* Lines 241-248, an answer that is a key of FILE_TYPES.
ChooseType ==
    /\ pc = "menu"
    /\ \E inp \in MenuInputs :
         /\ strip(inp) \in DOMAIN FILE_TYPES
         /\ choice' = strip(inp)
         /\ stdout' = Append(stdout, "Listing " \o FILE_TYPES[strip(inp)].description)
    /\ pc' = "list"
    /\ UNCHANGED << git, selected, git_root,
                    cwd, tracked, worktree, skip_patterns, skip_dirs, all_files,
                    filtered_files, sorted_files, fzf, selected_files, final_files,
                    aider_command, displayed, execute, stderr, invoked, aider_argv,
                    exit_status >>

\* Lines 241-245, any other answer: the prompt comes again.
InvalidChoice ==
    /\ pc = "menu"
    /\ invalid_answers < MaxInvalid
    /\ \E inp \in MenuInputs :
         /\ strip(inp) \notin DOMAIN FILE_TYPES
         /\ stdout' = Append(stdout, "Invalid choice. Please try again.")
    /\ UNCHANGED << git, selected, git_root,
                    pc, choice, cwd, tracked, worktree, skip_patterns, skip_dirs,
                    all_files, filtered_files, sorted_files, fzf, selected_files,
                    final_files, aider_command, displayed, execute, stderr, invoked,
                    aider_argv, exit_status >>

\* get_git_files returning [] where git failed.
GetGitFilesFailedQuiet ==
    /\ pc = "list"
    /\ invoked' = Append(invoked, "git ls-files")
    /\ git' = "failed"
    /\ all_files' = <<>>
    /\ pc' = "filter"
    /\ UNCHANGED << selected, git_root,
                    choice, cwd, tracked, worktree, skip_patterns, skip_dirs,
                    filtered_files, sorted_files, fzf, selected_files, final_files,
                    aider_command, displayed, execute, stdout, stderr, aider_argv,
                    exit_status >>

\* Line 250, get_git_files returning (lines 79-94).
GetGitFiles ==
    /\ pc = "list"
    /\ invoked' = Append(invoked, "git ls-files")
    /\ LET files == git_ls_files(tracked, FILE_TYPES[choice].ext)
       IN  \E dirs \in list_of(top_dirs(files)) :
               all_files' = all_entries(dirs, files)
    /\ git' = "ok"
    /\ pc' = "filter"
    /\ UNCHANGED << selected, git_root,
                    choice, cwd, tracked, worktree, skip_patterns, skip_dirs,
                    filtered_files, sorted_files, fzf, selected_files, final_files,
                    aider_command, displayed, execute, stdout, stderr, aider_argv,
                    exit_status >>

\* Line 250, git exiting non-zero: CalledProcessError, lines 95-97.
GetGitFilesFailed ==
    /\ pc = "list"
    /\ invoked' = Append(invoked, "git ls-files")
    /\ git' = "failed"
    /\ stderr' = Append(stderr, "Error retrieving Git files")
    /\ exit_status' = 1
    /\ pc' = "exit"
    /\ UNCHANGED << selected, git_root,
                    choice, cwd, tracked, worktree, skip_patterns, skip_dirs,
                    all_files, filtered_files, sorted_files, fzf, selected_files,
                    final_files, aider_command, displayed, execute, stdout,
                    aider_argv >>

\* Line 250, git not started (OSError): no handler, the interpreter prints
\* the traceback and exits with status 1.
GetGitFilesRaised ==
    /\ pc = "list"
    /\ invoked' = Append(invoked, "git ls-files")
    /\ git' = "raise"
    /\ stderr' = Append(stderr, "Traceback")
    /\ exit_status' = 1
    /\ pc' = "exit"
    /\ UNCHANGED << selected, git_root,
                    choice, cwd, tracked, worktree, skip_patterns, skip_dirs,
                    all_files, filtered_files, sorted_files, fzf, selected_files,
                    final_files, aider_command, displayed, execute, stdout,
                    aider_argv >>

\* Line 252.
FilterFiles ==
    /\ pc = "filter"
    /\ filtered_files' = filter_files(all_files, skip_patterns, skip_dirs)
    /\ pc' = "sort"
    /\ UNCHANGED << git, selected, git_root,
                    choice, cwd, tracked, worktree, skip_patterns, skip_dirs,
                    all_files, sorted_files, fzf, selected_files, final_files,
                    aider_command, displayed, execute, stdout, stderr, invoked,
                    aider_argv, exit_status >>

\* Line 254.
SortFiles ==
    /\ pc = "sort"
    /\ sorted_files' = sort_files(filtered_files)
    /\ pc' = "select"
    /\ UNCHANGED << git, selected, git_root,
                    choice, cwd, tracked, worktree, skip_patterns, skip_dirs,
                    all_files, filtered_files, fzf, selected_files, final_files,
                    aider_command, displayed, execute, stdout, stderr, invoked,
                    aider_argv, exit_status >>

\* The sets of lines the user can have marked when fzf exits with status 0.
selections(files) ==
    { S \in SUBSET fzf_lines(files) : Cardinality(S) \in 1..MaxSelect }

\* Line 256, fzf exiting with status 0 (lines 182-198).
SelectZero ==
    /\ pc = "select"
    /\ invoked' = invoked \o << "git rev-parse", "fzf" >>
    /\ fzf' = "zero"
    /\ \E rev_parse_ok \in BOOLEAN, lines \in selections(sorted_files) :
         /\ selected' = lines
         /\ git_root' = rev_parse(sorted_files, rev_parse_ok)
         /\ selected_files' = selection_result(lines, git_root')
    /\ pc' = "expand"
    /\ UNCHANGED << git,
                    choice, cwd, tracked, worktree, skip_patterns, skip_dirs,
                    all_files, filtered_files, sorted_files, final_files,
                    aider_command, displayed, execute, stdout, stderr, aider_argv,
                    exit_status >>

\* interactive_file_selection ending the process where fzf exits non-zero.
SelectNonZeroExits ==
    /\ pc = "select"
    /\ invoked' = invoked \o << "git rev-parse", "fzf" >>
    /\ fzf' = "nonzero"
    /\ stderr' = Append(stderr, "Error running fzf")
    /\ exit_status' = 1
    /\ pc' = "exit"
    /\ UNCHANGED << git, selected, git_root,
                    choice, cwd, tracked, worktree, skip_patterns, skip_dirs,
                    all_files, filtered_files, sorted_files, selected_files,
                    final_files, aider_command, displayed, execute, stdout,
                    aider_argv >>

\* Line 256, fzf exiting with another status (line 199).
SelectNonZero ==
    /\ pc = "select"
    /\ invoked' = invoked \o << "git rev-parse", "fzf" >>
    /\ fzf' = "nonzero"
    /\ selected_files' = <<>>
    /\ pc' = "expand"
    /\ UNCHANGED << git, selected, git_root,
                    choice, cwd, tracked, worktree, skip_patterns, skip_dirs,
                    all_files, filtered_files, sorted_files, final_files,
                    aider_command, displayed, execute, stdout, stderr, aider_argv,
                    exit_status >>

\* Line 256, subprocess.run raising (fzf cannot be started): lines 200-202.
SelectRaised ==
    /\ pc = "select"
    /\ invoked' = invoked \o << "git rev-parse", "fzf" >>
    /\ fzf' = "raise"
    /\ stderr' = Append(stderr, "Error running fzf")
    /\ exit_status' = 1
    /\ pc' = "exit"
    /\ UNCHANGED << git, selected, git_root,
                    choice, cwd, tracked, worktree, skip_patterns, skip_dirs,
                    all_files, filtered_files, sorted_files, selected_files,
                    final_files, aider_command, displayed, execute, stdout,
                    aider_argv >>

\* Lines 258-263: each selected entry that ends with "/" goes through
\* expand_directory, whose git call succeeds or not.
ExpandSelected ==
    /\ pc = "expand"
    /\ \E git_ok \in [1..Len(selected_files) -> BOOLEAN] :
         /\ final_files' = expand_all(selected_files, git_ok, 1)
         /\ invoked' = invoked \o
                [k \in 1..Cardinality(expanded(selected_files)) |-> "git ls-files dir*"]
         /\ stderr' = stderr \o
                [k \in 1..Cardinality({ i \in expanded(selected_files) : ~git_ok[i] })
                    |-> "Error finding files"]
    /\ pc' = "check"
    /\ UNCHANGED << git, selected, git_root,
                    choice, cwd, tracked, worktree, skip_patterns, skip_dirs,
                    all_files, filtered_files, sorted_files, fzf, selected_files,
                    aider_command, displayed, execute, stdout, aider_argv,
                    exit_status >>

\* Lines 265-267.
NoFilesSelected ==
    /\ pc = "check"
    /\ final_files = <<>>
    /\ stdout' = Append(stdout, "No files selected. Exiting.")
    /\ exit_status' = 0
    /\ pc' = "exit"
    /\ UNCHANGED << git, selected, git_root,
                    choice, cwd, tracked, worktree, skip_patterns, skip_dirs,
                    all_files, filtered_files, sorted_files, fzf, selected_files,
                    final_files, aider_command, displayed, execute, stderr, invoked,
                    aider_argv >>

\* Lines 265, 270-275.
BuildCommand ==
    /\ pc = "check"
    /\ final_files # <<>>
    /\ aider_command' = build_command(final_files)
    /\ displayed' = join_space(aider_command')
    /\ stdout' = stdout \o << "Generated Aider command:", "<command>" >>
    /\ pc' = "confirm"
    /\ UNCHANGED << git, selected, git_root,
                    choice, cwd, tracked, worktree, skip_patterns, skip_dirs,
                    all_files, filtered_files, sorted_files, fzf, selected_files,
                    final_files, execute, stderr, invoked, aider_argv, exit_status >>

\* Lines 277-278, an answer that is not "yes": main returns.
Decline ==
    /\ pc = "confirm"
    /\ \E answer \in Answers :
         /\ ~confirmed(answer)
         /\ execute' = lower(answer)
    /\ exit_status' = 0
    /\ pc' = "exit"
    /\ UNCHANGED << git, selected, git_root,
                    choice, cwd, tracked, worktree, skip_patterns, skip_dirs,
                    all_files, filtered_files, sorted_files, fzf, selected_files,
                    final_files, aider_command, displayed, stdout, stderr, invoked,
                    aider_argv >>

\* Lines 277-279, "yes": aider runs, and main returns whatever its status.
RunAider ==
    /\ pc = "confirm"
    /\ \E answer \in Answers :
         /\ confirmed(answer)
         /\ execute' = lower(answer)
    /\ invoked' = Append(invoked, "aider")
    /\ aider_argv' = aider_command
    /\ exit_status' = 0
    /\ pc' = "exit"
    /\ UNCHANGED << git, selected, git_root,
                    choice, cwd, tracked, worktree, skip_patterns, skip_dirs,
                    all_files, filtered_files, sorted_files, fzf, selected_files,
                    final_files, aider_command, displayed, stdout, stderr >>

\* Lines 277-279, "yes" and subprocess.run raising (aider cannot be
\* started): no handler, traceback and status 1.
RunAiderRaised ==
    /\ pc = "confirm"
    /\ \E answer \in Answers :
         /\ confirmed(answer)
         /\ execute' = lower(answer)
    /\ invoked' = Append(invoked, "aider")
    /\ aider_argv' = aider_command
    /\ stderr' = Append(stderr, "Traceback")
    /\ exit_status' = 1
    /\ pc' = "exit"
    /\ UNCHANGED << git, selected, git_root,
                    choice, cwd, tracked, worktree, skip_patterns, skip_dirs,
                    all_files, filtered_files, sorted_files, fzf, selected_files,
                    final_files, aider_command, displayed, stdout >>

Next ==
    \/ ChooseType
    \/ InvalidChoice
    \/ GetGitFiles
    \/ GetGitFilesFailed
    \/ GetGitFilesRaised
    \/ FilterFiles
    \/ SortFiles
    \/ SelectZero
    \/ SelectNonZero
    \/ SelectRaised
    \/ ExpandSelected
    \/ NoFilesSelected
    \/ BuildCommand
    \/ Decline
    \/ RunAider
    \/ RunAiderRaised

Spec == Init /\ [][Next]_vars

----------------------------------------------------------------------------
(* sort_files on its own: any list of up to MaxFiles paths, sorted, and    *)
(* the result sorted again.                                                *)

SortInit ==
    /\ Fresh
    /\ pc = "sort"
    /\ all_files = <<>>
    /\ filtered_files \in seqs_upto(SortPaths, MaxFiles)
    /\ sorted_files = <<>>
    /\ cwd = <<>>
    /\ tracked = <<>>
    /\ worktree = {}
    /\ skip_patterns = SKIP_FILES
    /\ skip_dirs = SKIP_DIRS

\* The call sort_files(sort_files(files)): the result goes in again.
SortAgain ==
    /\ pc = "select"
    /\ filtered_files' = sorted_files
    /\ sorted_files' = sort_files(sorted_files)
    /\ pc' = "sorted twice"
    /\ UNCHANGED << git, selected, git_root,
                    choice, cwd, tracked, worktree, skip_patterns, skip_dirs,
                    all_files, fzf, selected_files, final_files, aider_command,
                    displayed, execute, stdout, stderr, invoked, aider_argv,
                    exit_status >>

SortNext == SortFiles \/ SortAgain

SortSpec == SortInit /\ [][SortNext]_vars

----------------------------------------------------------------------------
(* filter_files on its own: any list of up to MaxFilter entries and any    *)
(* two skip-lists of up to MaxSkip patterns each.                          *)

FilterInit ==
    /\ Fresh
    /\ pc = "filter"
    /\ all_files \in seqs_upto(FilterPaths, MaxFilter)
    /\ skip_patterns \in seqs_upto(PatternPool, MaxSkip)
    /\ skip_dirs \in seqs_upto(DirPool, MaxSkip)
    /\ filtered_files = <<>>
    /\ sorted_files = <<>>
    /\ cwd = <<>>
    /\ tracked = <<>>
    /\ worktree = {}

FilterNext == FilterFiles

FilterSpec == FilterInit /\ [][FilterNext]_vars

----------------------------------------------------------------------------
(* The properties.                                                         *)

has(xs, x) == \E i \in 1..Len(xs) : xs[i] = x

is_dir_entry(p) == endswith(p, << "/" >>)

\* p up to and with its last "/".
dirpart(p) == SubSeq(p, 1, Len(p) - Len(basename(p)))

\* The directory an entry lies in: "" for a.py and for b/, "b/" for b/x.py
\* and for b/c/.
parent(p) ==
    IF is_dir_entry(p) THEN dirpart(SubSeq(p, 1, Len(p) - 1)) ELSE dirpart(p)

\* Two paths that differ in the letter case of the final segment only.
case_twins(a, b) ==
    /\ a # b
    /\ dirpart(a) = dirpart(b)
    /\ lower(basename(a)) = lower(basename(b))

no_case_twins(xs) == \A i, j \in 1..Len(xs) : ~case_twins(xs[i], xs[j])

\* The lists with the elements of xs in another order.
permutations(xs) ==
    { [i \in 1..Len(xs) |-> xs[f[i]]] :
        f \in { g \in [1..Len(xs) -> 1..Len(xs)] :
                  \A i, j \in 1..Len(xs) : i # j => g[i] # g[j] } }

\* C1: with the tracked files [a.py, b/__init__.py, b/x.py, node_modules/y.js]
\* and the configured skip-lists, listing, filtering and sorting yield exactly
\* [b/, a.py], b/ first.
C1_EndToEnd ==
    (tracked = ExampleRepo /\ choice = << "8" >> /\ pc = "select")
        => sorted_files = << <<"b", "/">>, <<"a", ".", "p", "y">> >>

\* C2: in the output of sort_files, of a directory entry and a file entry with
\* the same parent directory, the directory entry comes first.
C2_DirectoriesFirst ==
    pc \in { "select", "sorted twice" } =>
        \A i, j \in 1..Len(sorted_files) :
            ( /\ is_dir_entry(sorted_files[i])
              /\ ~is_dir_entry(sorted_files[j])
              /\ parent(sorted_files[i]) = parent(sorted_files[j]) ) => i < j

\* C3, as stated: the list filter_files returns holds no path whose basename
\* matches a filename skip pattern, no directory path that starts with a
\* skip-dir prefix, and no path whose basename starts with a dot.
C3_NoSkippedPath ==
    pc = "sort" =>
        \A i \in 1..Len(filtered_files) :
            LET f == filtered_files[i]
            IN  /\ \A k \in 1..Len(skip_patterns) : ~fnmatch(basename(f), skip_patterns[k])
                /\ is_dir_entry(f) => \A k \in 1..Len(skip_dirs) : ~startswith(f, skip_dirs[k])
                /\ ~startswith(basename(f), << "." >>)

\* C3, amended: the list filter_files returns holds no file entry (a path not
\* ending in "/") whose basename matches a filename skip pattern or starts with
\* a dot, and no directory entry that starts with a skip-dir prefix.
C3_NoSkippedEntry ==
    pc = "sort" =>
        \A i \in 1..Len(filtered_files) :
            LET f == filtered_files[i]
            IN  IF is_dir_entry(f)
                THEN \A k \in 1..Len(skip_dirs) : ~startswith(f, skip_dirs[k])
                ELSE /\ \A k \in 1..Len(skip_patterns) :
                            ~fnmatch(basename(f), skip_patterns[k])
                     /\ ~startswith(basename(f), << "." >>)

\* A file matching a skip pattern went in, and something came out.
C3_Witness ==
    /\ pc = "sort"
    /\ filtered_files # <<>>
    /\ \E i \in 1..Len(all_files), k \in 1..Len(skip_patterns) :
           /\ ~is_dir_entry(all_files[i])
           /\ fnmatch(basename(all_files[i]), skip_patterns[k])

\* C4: when fzf exits with status zero, every selected directory is replaced in
\* the final list by all the files it contains and every selected plain file
\* is in the final list; here with the program run in the repository's root,
\* and a path counted as present under its normalised name.
C4_SelectionKept ==
    (pc = "check" /\ fzf = "zero" /\ cwd = <<>> /\ git_root = <<>>) =>
        \A item \in selected :
            IF isdir(item)
            THEN \A f \in walk(item) : has(final_files, join_path(abspath(f)))
            ELSE has(final_files, join_path(abspath(item)))

\* C5: aider is run only with a command built as "aider" and one "--file",
\* path pair per path of the final list in its order, after that command was
\* displayed and the user answered yes; on any other answer and with an empty
\* final list it is never run.
C5_RunOnlyConfirmed ==
    (has(invoked, "aider") \/ aider_argv # <<>>) =>
        /\ final_files # <<>>
        /\ Len(aider_argv) = 1 + 2 * Len(final_files)
        /\ aider_argv[1] = <<"a", "i", "d", "e", "r">>
        /\ \A i \in 1..Len(final_files) :
               /\ aider_argv[2 * i] = <<"-", "-", "f", "i", "l", "e">>
               /\ aider_argv[2 * i + 1] = final_files[i]
        /\ has(stdout, "Generated Aider command:")
        /\ displayed = join_space(aider_argv)
        /\ execute = <<"y", "e", "s">>

\* aider ran on two files or more.
C5_Witness ==
    /\ has(invoked, "aider")
    /\ exit_status = 0
    /\ Len(final_files) >= 2

\* What C6 promises of a run.
empty_selection_run ==
    /\ selected_files = <<>>
    /\ final_files = <<>>
    /\ ~has(invoked, "aider")
    /\ pc \in { "expand", "check", "exit" }
    /\ pc = "exit" =>
           /\ exit_status = 0
           /\ stdout[Len(stdout)] = "No files selected. Exiting."

\* C6, as stated: whenever fzf fails or exits with a non-zero status, the
\* selection is empty and the run goes on into main, which says that no files
\* were selected and exits with status zero without running aider.
C6_FailureIsEmptySelection ==
    fzf \in { "nonzero", "raise" } => empty_selection_run

\* C6, amended: whenever fzf exits with a non-zero status, the selection is
\* empty and the run goes on into main, which says that no files were selected
\* and exits with status zero without running aider.
C6_NonZeroIsEmptySelection ==
    fzf = "nonzero" => empty_selection_run

\* fzf was given lines, exited non-zero, and main has ended.
C6_Witness ==
    /\ fzf = "nonzero"
    /\ pc = "exit"
    /\ sorted_files # <<>>

\* C7: if the listing command of get_git_files fails, a message goes to
\* stderr and the process ends with a non-zero status, and neither fzf nor
\* aider is run.
C7_ListingFailure ==
    git \in { "failed", "raise" } =>
        /\ pc = "exit"
        /\ exit_status > 0
        /\ stderr # <<>>
        /\ ~has(invoked, "fzf")
        /\ ~has(invoked, "aider")

\* The listing failed in a repository that has files.
C7_Witness ==
    /\ git = "failed"
    /\ pc = "exit"
    /\ tracked # <<>>

\* C8, as stated: for any list of unique paths, every permutation of it is
\* sorted to the same list.
C8_OrderIndependent ==
    (pc = "select" /\ distinct(filtered_files)) =>
        \A other \in permutations(filtered_files) : sort_files(other) = sorted_files

\* C8, amended: for any list of unique paths no two of which differ in the
\* letter case of the final segment only, every permutation of it is sorted
\* to the same list.
C8_OrderIndependentNoTwins ==
    (pc = "select" /\ distinct(filtered_files) /\ no_case_twins(filtered_files)) =>
        \A other \in permutations(filtered_files) : sort_files(other) = sorted_files

\* Three unique paths without case twins, which the sort moved.
C8_Witness ==
    /\ pc = "select"
    /\ distinct(filtered_files)
    /\ no_case_twins(filtered_files)
    /\ Len(filtered_files) >= 3
    /\ sorted_files # filtered_files

\* C9: sort_files(sort_files(L)) = sort_files(L).
C9_Idempotent ==
    pc = "sorted twice" => sorted_files = filtered_files

\* A list with two case twins was sorted twice.
C9_Witness ==
    /\ pc = "sorted twice"
    /\ Len(sorted_files) >= 3
    /\ ~no_case_twins(sorted_files)

\* C10: whatever lines were selected, the final list holds no path ending in
\* "/" and no path twice, and main never calls expand_directory.
C10_PlainUnique ==
    /\ ~has(invoked, "git ls-files dir*")
    /\ \A i \in 1..Len(selected_files) : ~is_dir_entry(selected_files[i])
    /\ \A i \in 1..Len(final_files) : ~is_dir_entry(final_files[i])
    /\ distinct(final_files)

\* A directory entry was among the selected lines, and two files or more are
\* in the final list.
C10_Witness ==
    /\ pc = "check"
    /\ fzf = "zero"
    /\ \E item \in selected : is_dir_entry(item)
    /\ Len(final_files) >= 2

====
